---- MODULE Spec2Model ----
(***************************************************************************)
(* A model of smol-jsonrpc: the JSON-RPC 2.0 message types Request,        *)
(* Response and Error, the ErrorCode enumeration and the ID coercion       *)
(* id_from_value.                                                          *)
(*                                                                         *)
(* Representation.                                                         *)
(*   - A Rust String / &str is a sequence of text fragments: single        *)
(*     characters wherever the code parses or searches the text (ids),     *)
(*     whole literals elsewhere (<<"null Params field">>).                 *)
(*   - u64 / i64 are modelled Bits wide (TLC's integers are 32 bit):       *)
(*     u64 is 0 .. 2^Bits - 1, i64 is -2^(Bits-1) .. 2^(Bits-1) - 1, and   *)
(*     `x as u64` on an i64 is x % 2^Bits.  i32 keeps its real width.      *)
(*   - An f64 is an exact decimal [num, den] (den a power of ten); the     *)
(*     rounding of f64 is not modelled.                                    *)
(*   - A serde_json::Value is a record [kind, val]; Option<T> is None or   *)
(*     Some(v); Result<T> is Ok(v) or Err(e).                              *)
(*   - A JSON object (on the wire, or a serde_json Map) is a sequence of   *)
(*     <<key, value>> pairs in the order its keys are written.             *)
(***************************************************************************)
EXTENDS Integers, Sequences, FiniteSets

VARIABLES req, resp, err, input, output, op

vars == <<req, resp, err, input, output, op>>

(***************************************************************************)
(* Bounds of the model                                                     *)
(***************************************************************************)
Bits == 4
MaxStrLen == 3

U64Modulus == 2 ^ Bits
U64Max == U64Modulus - 1
I64Min == 0 - (2 ^ (Bits - 1))
I64Max == (2 ^ (Bits - 1)) - 1

(***************************************************************************)
(* Option, Result and serde_json::Value                                    *)
(***************************************************************************)
None == [kind |-> "None"]
Some(v) == [kind |-> "Some", val |-> v]
Ok(v) == [kind |-> "Ok", val |-> v]
Err(e) == [kind |-> "Err", val |-> e]
IsSome(o) == o.kind = "Some"

Null == [kind |-> "null"]
Bool(b) == [kind |-> "bool", val |-> b]
PosInt(n) == [kind |-> "u64", val |-> n]
NegInt(n) == [kind |-> "i64", val |-> n]
Float(num, den) == [kind |-> "f64", val |-> [num |-> num, den |-> den]]
Str(s) == [kind |-> "string", val |-> s]
Arr(a) == [kind |-> "array", val |-> a]
Obj(m) == [kind |-> "object", val |-> m]

\* json!(n) for a u64 n
JsonU64(n) == PosInt(n)

(***************************************************************************)
(* Strings: str::contains and the std parsers str::parse::<i64 / u64 /     *)
(* f64> that id_from_value calls                                           *)
(***************************************************************************)
Digits == <<"0", "1", "2", "3", "4", "5", "6", "7", "8", "9">>
IsDigit(c) == \E d \in 1..10 : Digits[d] = c
DigitVal(c) == (CHOOSE d \in 1..10 : Digits[d] = c) - 1

Contains(s, c) == \E i \in 1..Len(s) : s[i] = c
AllDigits(s) == \A i \in 1..Len(s) : IsDigit(s[i])

RECURSIVE DecVal(_)
DecVal(s) ==
    IF Len(s) = 0 THEN 0
    ELSE 10 * DecVal(SubSeq(s, 1, Len(s) - 1)) + DigitVal(s[Len(s)])

RECURSIVE Pow10(_)
Pow10(k) == IF k = 0 THEN 1 ELSE 10 * Pow10(k - 1)

\* str::parse::<i64>: an optional sign, then one or more digits; a value
\* outside i64 is an error.
ParseI64(s) ==
    LET signed == Len(s) > 0 /\ s[1] \in {"-", "+"}
        body == IF signed THEN Tail(s) ELSE s
    IN  IF Len(body) = 0 \/ ~AllDigits(body) THEN None
        ELSE LET v == IF signed /\ s[1] = "-" THEN 0 - DecVal(body) ELSE DecVal(body)
             IN  IF v < I64Min \/ v > I64Max THEN None ELSE Some(v)

\* str::parse::<u64>: an optional "+", then one or more digits; a value
\* above u64::MAX is an error.
ParseU64(s) ==
    LET signed == Len(s) > 0 /\ s[1] = "+"
        body == IF signed THEN Tail(s) ELSE s
    IN  IF Len(body) = 0 \/ ~AllDigits(body) THEN None
        ELSE IF DecVal(body) > U64Max THEN None ELSE Some(DecVal(body))

\* str::parse::<f64> on decimal notation: an optional sign, digits with at
\* most one period and at least one digit.  It has no range error.
ParseF64(s) ==
    LET signed == Len(s) > 0 /\ s[1] \in {"-", "+"}
        body == IF signed THEN Tail(s) ELSE s
        dots == {i \in 1..Len(body) : body[i] = "."}
        dot == IF dots = {} THEN Len(body) + 1 ELSE CHOOSE i \in dots : TRUE
        ip == SubSeq(body, 1, dot - 1)
        fp == SubSeq(body, dot + 1, Len(body))
        mag == DecVal(ip) * Pow10(Len(fp)) + DecVal(fp)
    IN  IF Cardinality(dots) > 1 \/ ~AllDigits(ip) \/ ~AllDigits(fp)
           \/ Len(ip) + Len(fp) = 0
        THEN None
        ELSE Some([num |-> IF signed /\ s[1] = "-" THEN 0 - mag ELSE mag,
                   den |-> Pow10(Len(fp))])

\* The f64 truncated toward zero.
Trunc(f) == IF f.num < 0 THEN 0 - ((0 - f.num) \div f.den) ELSE f.num \div f.den

\* `id as u64` on an i64: the two's-complement bit pattern.
I64AsU64(n) == n % U64Modulus

\* `id as u64` on an f64: Rust's float-to-integer cast truncates toward zero
\* and saturates at the bounds of the target type.
\* Faulty variant: the truncated float wraps modulo 2^64, as the i64 cast does.
F64AsU64Wrapping(f) == Trunc(f) % U64Modulus
F64AsU64(f) ==
    IF Trunc(f) < 0 THEN 0
    ELSE IF Trunc(f) > U64Max THEN U64Max
    ELSE Trunc(f)

(***************************************************************************)
(* lib.rs: id_from_value                                                   *)
(***************************************************************************)
\* Option::map(|id| id as u64) on a parsed i64 / f64
MapI64AsU64(o) == IF IsSome(o) THEN Some(I64AsU64(o.val)) ELSE None
MapF64AsU64(o) == IF IsSome(o) THEN Some(F64AsU64(o.val)) ELSE None

\* Faulty variant: the period is looked for before the hyphen.
id_from_value_period_first(val) ==
    IF val.kind = "null" THEN None
    ELSE IF val.kind = "u64" THEN Some(val.val)
    ELSE IF val.kind = "i64" THEN Some(I64AsU64(val.val))
    ELSE IF val.kind = "f64" THEN Some(F64AsU64(val.val))
    ELSE IF val.kind = "string" THEN
        LET id_str == val.val
        IN  IF Contains(id_str, ".") THEN MapF64AsU64(ParseF64(id_str))
            ELSE IF Contains(id_str, "-") THEN MapI64AsU64(ParseI64(id_str))
            ELSE ParseU64(id_str)
    ELSE None

id_from_value(val) ==
    IF val.kind = "null" THEN None
    ELSE IF val.kind = "u64" THEN Some(val.val)
    ELSE IF val.kind = "i64" THEN Some(I64AsU64(val.val))
    ELSE IF val.kind = "f64" THEN Some(F64AsU64(val.val))
    ELSE IF val.kind = "string" THEN
        LET id_str == val.val
        IN  IF Contains(id_str, "-") THEN MapI64AsU64(ParseI64(id_str))
            ELSE IF Contains(id_str, ".") THEN MapF64AsU64(ParseF64(id_str))
            ELSE ParseU64(id_str)
    ELSE None

(***************************************************************************)
(* error.rs: ErrorCode                                                     *)
(***************************************************************************)
ErrorCodes == {"ParseError", "InvalidRequest", "MethodNotFound",
               "InvalidParams", "InternalError", "UnknownError"}

I32Min == 0 - 2147483647 - 1
I32Max == 2147483647

\* ErrorCode::new()
ErrorCode_new == "ParseError"

\* `err as i32`: the discriminants of the #[repr(i32)] enum
\* Faulty variant: the discriminants of InvalidRequest and MethodNotFound swapped.
i32_from_ErrorCode_swapped(code) ==
    CASE code = "ParseError" -> -32700
      [] code = "InvalidRequest" -> -32601
      [] code = "MethodNotFound" -> -32600
      [] code = "InvalidParams" -> -32602
      [] code = "InternalError" -> -32603
      [] code = "UnknownError" -> -32999

i32_from_ErrorCode(code) ==
    CASE code = "ParseError" -> -32700
      [] code = "InvalidRequest" -> -32600
      [] code = "MethodNotFound" -> -32601
      [] code = "InvalidParams" -> -32602
      [] code = "InternalError" -> -32603
      [] code = "UnknownError" -> -32999

\* impl From<i32> for ErrorCode
ErrorCode_from_i32(val) ==
    IF val = -32700 THEN "ParseError"
    ELSE IF val = -32600 THEN "InvalidRequest"
    ELSE IF val = -32601 THEN "MethodNotFound"
    ELSE IF val = -32602 THEN "InvalidParams"
    ELSE IF val = -32603 THEN "InternalError"
    ELSE "UnknownError"

\* impl From<ErrorCode> for &'static str
str_from_ErrorCode(code) ==
    CASE code = "ParseError" -> <<"Parse error">>
      [] code = "InvalidRequest" -> <<"Invalid request">>
      [] code = "MethodNotFound" -> <<"Method not found">>
      [] code = "InvalidParams" -> <<"Invalid params">>
      [] code = "InternalError" -> <<"Internal error">>
      [] code = "UnknownError" -> <<"Unknown error">>

\* The decimal rendering of an integer ({} on an i32 / u64)
RECURSIVE NatToStr(_)
NatToStr(n) ==
    IF n < 10 THEN <<Digits[n + 1]>>
    ELSE NatToStr(n \div 10) \o <<Digits[(n % 10) + 1]>>

IntToStr(n) == IF n < 0 THEN <<"-">> \o NatToStr(0 - n) ELSE NatToStr(n)

\* impl fmt::Display for ErrorCode: "{name} ({int})"
ErrorCode_fmt(code) ==
    str_from_ErrorCode(code) \o <<" ", "(">> \o IntToStr(i32_from_ErrorCode(code))
        \o <<")">>

(***************************************************************************)
(* serde_json: maps, numbers, and the Value read from JSON text            *)
(***************************************************************************)
\* The keys the model uses, in the order of str's Ord (serde_json's Map is a
\* BTreeMap, iterated in key order).
KeyOrder == <<"code", "data", "error", "id", "jsonrpc", "message", "method",
              "params", "result", "x">>
KeyRank(k) == CHOOSE i \in 1..Len(KeyOrder) : KeyOrder[i] = k

HasKey(m, k) == \E i \in 1..Len(m) : m[i][1] = k
Get(m, k) ==
    IF HasKey(m, k)
    THEN Some(m[CHOOSE i \in 1..Len(m) :
                    m[i][1] = k /\ \A j \in 1..(i - 1) : m[j][1] # k][2])
    ELSE None

\* Map::insert: the entry replaces one of the same key, or goes to its place
\* in key order.
MapInsert(m, kv) ==
    IF HasKey(m, kv[1])
    THEN [i \in 1..Len(m) |-> IF m[i][1] = kv[1] THEN kv ELSE m[i]]
    ELSE LET n == Cardinality({i \in 1..Len(m) : KeyRank(m[i][1]) < KeyRank(kv[1])})
         IN  SubSeq(m, 1, n) \o <<kv>> \o SubSeq(m, n + 1, Len(m))

RECURSIVE MapFromFields(_)
MapFromFields(fields) ==
    IF Len(fields) = 0 THEN <<>>
    ELSE MapInsert(MapFromFields(SubSeq(fields, 1, Len(fields) - 1)),
                   fields[Len(fields)])

\* Number::from(i32)
IntValue(n) == IF n < 0 THEN NegInt(n) ELSE PosInt(n)

\* A Value read from JSON text: an object's members are collected in a Map.
RECURSIVE ValueFromWire(_)
ValueFromWire(w) ==
    IF w.kind = "object"
    THEN Obj(MapFromFields([i \in 1..Len(w.val) |->
                               <<w.val[i][1], ValueFromWire(w.val[i][2])>>]))
    ELSE IF w.kind = "array"
    THEN Arr([i \in 1..Len(w.val) |-> ValueFromWire(w.val[i])])
    ELSE w

\* serde's name of a Value's type in "invalid type" diagnostics
Unexpected(v) ==
    CASE v.kind = "null" -> "null"
      [] v.kind = "bool" -> "boolean"
      [] v.kind = "u64" -> "integer"
      [] v.kind = "i64" -> "integer"
      [] v.kind = "f64" -> "floating point"
      [] v.kind = "string" -> "string"
      [] v.kind = "array" -> "sequence"
      [] v.kind = "object" -> "map"

InvalidType(v, expected) == <<"invalid type: ", Unexpected(v), ", expected ", expected>>
InvalidValue(v, expected) == <<"invalid value: ", Unexpected(v), ", expected ", expected>>
MissingField(f) == <<"missing field ", f>>
InvalidLength(n, expected) == <<"invalid length ">> \o IntToStr(n) \o <<", expected ", expected>>

(***************************************************************************)
(* error.rs: Error                                                         *)
(***************************************************************************)
Error_new == [code |-> ErrorCode_new, message |-> <<>>, data |-> Null]
Error_with_code(e, code) == [e EXCEPT !.code = code]
Error_with_message(e, message) == [e EXCEPT !.message = message]
Error_with_data(e, data) == [e EXCEPT !.data = data]

\* impl From<serde_json::Error> for Error
Error_from_serde(diag) ==
    [code |-> "ParseError", message |-> diag, data |-> Null]

\* impl serde::Serialize for Error: the fields as the impl emits them
Error_serialize(e) ==
    << <<"code", IntValue(i32_from_ErrorCode(e.code))>>,
       <<"message", Str(e.message)>>,
       <<"data", e.data>> >>

\* json!(error): the emitted fields collected in a serde_json Map
\* Faulty variant: the Map keeps the order in which the fields were emitted.
json_Error_insertion_order(e) == Obj(Error_serialize(e))
json_Error(e) == Obj(MapFromFields(Error_serialize(e)))

\* impl Deserialize for ErrorCode: an i32, then From<i32>
ErrorCode_deserialize(v) ==
    IF v.kind \in {"u64", "i64"}
    THEN IF v.val < I32Min \/ v.val > I32Max
         THEN Err(InvalidValue(v, "i32"))
         ELSE Ok(ErrorCode_from_i32(v.val))
    ELSE Err(InvalidType(v, "i32"))

String_deserialize(v) ==
    IF v.kind = "string" THEN Ok(v.val) ELSE Err(InvalidType(v, "a string"))

\* #[derive(Deserialize)] struct Error, from a Value: a map is read entry by
\* entry in key order and then checked for missing fields in declaration
\* order; a sequence is read as code, message, data.
Error_deserialize_map(m) ==
    LET code == Get(m, "code")
        message == Get(m, "message")
        data == Get(m, "data")
    IN  IF IsSome(code) /\ ErrorCode_deserialize(code.val).kind = "Err"
        THEN ErrorCode_deserialize(code.val)
        ELSE IF IsSome(message) /\ String_deserialize(message.val).kind = "Err"
        THEN String_deserialize(message.val)
        ELSE IF ~IsSome(code) THEN Err(MissingField("code"))
        ELSE IF ~IsSome(message) THEN Err(MissingField("message"))
        ELSE IF ~IsSome(data) THEN Err(MissingField("data"))
        ELSE Ok([code |-> ErrorCode_deserialize(code.val).val,
                 message |-> message.val.val,
                 data |-> data.val])

Error_deserialize_seq(a) ==
    IF Len(a) < 1 THEN Err(InvalidLength(0, "struct Error with 3 elements"))
    ELSE IF ErrorCode_deserialize(a[1]).kind = "Err" THEN ErrorCode_deserialize(a[1])
    ELSE IF Len(a) < 2 THEN Err(InvalidLength(1, "struct Error with 3 elements"))
    ELSE IF String_deserialize(a[2]).kind = "Err" THEN String_deserialize(a[2])
    ELSE IF Len(a) < 3 THEN Err(InvalidLength(2, "struct Error with 3 elements"))
    ELSE IF Len(a) > 3 THEN Err(InvalidLength(Len(a), "fewer elements in array"))
    ELSE Ok([code |-> ErrorCode_deserialize(a[1]).val,
             message |-> a[2].val,
             data |-> a[3]])

Error_deserialize(v) ==
    IF v.kind = "object" THEN Error_deserialize_map(v.val)
    ELSE IF v.kind = "array" THEN Error_deserialize_seq(v.val)
    ELSE Err(InvalidType(v, "struct Error"))

\* impl fmt::Display for serde_json::Value: compact JSON text
EscapeChar(c) ==
    IF c = "\"" THEN <<"\\", "\"">>
    ELSE IF c = "\\" THEN <<"\\", "\\">>
    ELSE <<c>>

RECURSIVE Escape(_)
Escape(str) == IF Len(str) = 0 THEN <<>> ELSE EscapeChar(Head(str)) \o Escape(Tail(str))

Quoted(str) == <<"\"">> \o Escape(str) \o <<"\"">>

RECURSIVE JsonText(_)
RECURSIVE JsonItems(_)
RECURSIVE JsonMembers(_)
JsonItems(a) ==
    IF Len(a) = 0 THEN <<>>
    ELSE IF Len(a) = 1 THEN JsonText(a[1])
    ELSE JsonText(a[1]) \o <<",">> \o JsonItems(Tail(a))

JsonMembers(m) ==
    IF Len(m) = 0 THEN <<>>
    ELSE IF Len(m) = 1 THEN Quoted(<<m[1][1]>>) \o <<":">> \o JsonText(m[1][2])
    ELSE Quoted(<<m[1][1]>>) \o <<":">> \o JsonText(m[1][2]) \o <<",">>
            \o JsonMembers(Tail(m))

JsonText(v) ==
    CASE v.kind = "null" -> <<"null">>
      [] v.kind = "bool" -> IF v.val THEN <<"true">> ELSE <<"false">>
      [] v.kind \in {"u64", "i64"} -> IntToStr(v.val)
      [] v.kind = "string" -> Quoted(v.val)
      [] v.kind = "array" -> <<"[">> \o JsonItems(v.val) \o <<"]">>
      [] v.kind = "object" -> <<"{">> \o JsonMembers(v.val) \o <<"}">>

\* impl fmt::Display for Error
\* Faulty variant: the code is rendered as its integer alone.
Error_fmt_code_as_i32(e) ==
    IF e.data.kind = "null"
    THEN <<"\"code\": ">> \o IntToStr(i32_from_ErrorCode(e.code))
            \o <<", \"message\": \"">> \o e.message \o <<"\"">>
    ELSE <<"\"code\": ">> \o IntToStr(i32_from_ErrorCode(e.code))
            \o <<", \"message\": \"">> \o e.message \o <<"\"">>
            \o <<", \"data\": ">> \o JsonText(e.data)

Error_fmt(e) ==
    IF e.data.kind = "null"
    THEN <<"\"code\": ">> \o ErrorCode_fmt(e.code)
            \o <<", \"message\": \"">> \o e.message \o <<"\"">>
    ELSE <<"\"code\": ">> \o ErrorCode_fmt(e.code)
            \o <<", \"message\": \"">> \o e.message \o <<"\"">>
            \o <<", \"data\": ">> \o JsonText(e.data)

(***************************************************************************)
(* serde_json::from_value::<T> for the target types the model asks for     *)
(***************************************************************************)
Types == {"u64", "String", "bool", "Vec<u64>", "Value"}

FromValue(T, v) ==
    CASE T = "u64" ->
            IF v.kind = "u64" THEN Ok(v.val)
            ELSE IF v.kind = "i64" THEN Err(InvalidValue(v, "u64"))
            ELSE Err(InvalidType(v, "u64"))
      [] T = "String" -> String_deserialize(v)
      [] T = "bool" ->
            IF v.kind = "bool" THEN Ok(v.val) ELSE Err(InvalidType(v, "a boolean"))
      [] T = "Vec<u64>" ->
            IF v.kind # "array" THEN Err(InvalidType(v, "a sequence"))
            ELSE IF \E i \in 1..Len(v.val) : v.val[i].kind # "u64"
            THEN LET bad == CHOOSE i \in 1..Len(v.val) :
                                /\ v.val[i].kind # "u64"
                                /\ \A j \in 1..(i - 1) : v.val[j].kind = "u64"
                 IN  IF v.val[bad].kind = "i64"
                     THEN Err(InvalidValue(v.val[bad], "u64"))
                     ELSE Err(InvalidType(v.val[bad], "u64"))
            ELSE Ok([i \in 1..Len(v.val) |-> v.val[i].val])
      [] T = "Value" -> Ok(v)

\* .map_err(|err| err.into())
MapErrInto(r) == IF r.kind = "Err" THEN Err(Error_from_serde(r.val)) ELSE r

\* Option<Value> as a struct field: absent and null both read as None; None
\* is written as null.
OptionFromWire(o) ==
    IF IsSome(o) /\ o.val.kind # "null" THEN Some(ValueFromWire(o.val)) ELSE None
OptionToWire(o) == IF IsSome(o) THEN o.val ELSE Null

(***************************************************************************)
(* request.rs: Request                                                     *)
(***************************************************************************)
Request_new ==
    [jsonrpc |-> Str(<<"2.0">>), id |-> None, method |-> None, params |-> None]
Request_new_null ==
    [jsonrpc |-> Null, id |-> None, method |-> None, params |-> None]

Request_jsonrpc(r) == IF r.jsonrpc.kind = "string" THEN Some(r.jsonrpc.val) ELSE None

Request_id(r) ==
    IF IsSome(r.id)
    THEN Some(IF IsSome(id_from_value(r.id.val)) THEN id_from_value(r.id.val).val ELSE 0)
    ELSE None

Request_with_id(r, id) == [r EXCEPT !.id = Some(JsonU64(id))]

Request_method(r) ==
    IF IsSome(r.method) /\ r.method.val.kind = "string"
    THEN Some(r.method.val.val)
    ELSE None

Request_with_method(r, method) == [r EXCEPT !.method = Some(Str(method))]

Request_params_is_null(r) == ~IsSome(r.params)

\* Faulty variant: an absent field is converted as if it were null.
Request_params_unchecked(r, T) ==
    MapErrInto(FromValue(T, IF IsSome(r.params) THEN r.params.val ELSE Null))
Request_params(r, T) ==
    IF IsSome(r.params)
    THEN MapErrInto(FromValue(T, r.params.val))
    ELSE Err(Error_with_message(Error_with_code(Error_new, "InvalidParams"),
                                <<"null Params field">>))

Request_with_params(r, params) == [r EXCEPT !.params = Some(params)]

\* #[derive(Serialize)]: the fields in declaration order
\* Faulty variant: the id is written last.
Request_serialize_id_last(r) ==
    Obj(<< <<"jsonrpc", r.jsonrpc>>,
           <<"method", OptionToWire(r.method)>>,
           <<"params", OptionToWire(r.params)>>,
           <<"id", OptionToWire(r.id)>> >>)
Request_serialize(r) ==
    Obj(<< <<"jsonrpc", r.jsonrpc>>,
           <<"id", OptionToWire(r.id)>>,
           <<"method", OptionToWire(r.method)>>,
           <<"params", OptionToWire(r.params)>> >>)

\* #[derive(Deserialize)], from a JSON object
Request_deserialize(w) ==
    IF w.kind # "object" THEN Err(InvalidType(w, "struct Request"))
    ELSE IF ~HasKey(w.val, "jsonrpc") THEN Err(MissingField("jsonrpc"))
    ELSE Ok([jsonrpc |-> ValueFromWire(Get(w.val, "jsonrpc").val),
             id |-> OptionFromWire(Get(w.val, "id")),
             method |-> OptionFromWire(Get(w.val, "method")),
             params |-> OptionFromWire(Get(w.val, "params"))])

(***************************************************************************)
(* response.rs: Response                                                   *)
(***************************************************************************)
Response_new ==
    [jsonrpc |-> Str(<<"2.0">>), id |-> Null, result |-> None, error |-> None]
Response_new_null ==
    [jsonrpc |-> Null, id |-> Null, result |-> None, error |-> None]

Response_jsonrpc(r) == IF r.jsonrpc.kind = "string" THEN Some(r.jsonrpc.val) ELSE None

\* Faulty variant: an id that fails to coerce reads as 0, as in Request::id.
Response_id_zero_default(r) ==
    IF r.id.kind = "null" THEN None
    ELSE Some(IF IsSome(id_from_value(r.id)) THEN id_from_value(r.id).val ELSE 0)
Response_id(r) == id_from_value(r.id)

Response_set_id(r, id) == [r EXCEPT !.id = JsonU64(id)]

Response_result_is_null(r) == ~IsSome(r.result)

Response_result(r, T) ==
    IF IsSome(r.result)
    THEN MapErrInto(FromValue(T, r.result.val))
    ELSE Err(Error_with_message(Error_with_code(Error_new, "InvalidParams"),
                                <<"null Result field">>))

\* Faulty variant: setting the result clears the error.
Response_set_result_clears_error(r, result) ==
    [r EXCEPT !.result = Some(result), !.error = None]
Response_set_result(r, result) == [r EXCEPT !.result = Some(result)]

Response_error_is_null(r) == ~IsSome(r.error)

\* Faulty variant: a malformed error payload reads as no error.
Response_error_strict(r) ==
    IF IsSome(r.error) /\ Error_deserialize(r.error.val).kind = "Ok"
    THEN Some(Error_deserialize(r.error.val).val)
    ELSE None
Response_error(r) ==
    IF IsSome(r.error)
    THEN Some(IF Error_deserialize(r.error.val).kind = "Ok"
              THEN Error_deserialize(r.error.val).val
              ELSE Error_from_serde(Error_deserialize(r.error.val).val))
    ELSE None

Response_set_error(r, error) == [r EXCEPT !.error = Some(json_Error(error))]

\* #[derive(Serialize)]: the fields in declaration order
Response_serialize(r) ==
    Obj(<< <<"jsonrpc", r.jsonrpc>>,
           <<"id", r.id>>,
           <<"result", OptionToWire(r.result)>>,
           <<"error", OptionToWire(r.error)>> >>)

\* #[derive(Deserialize)], from a JSON object
Response_deserialize(w) ==
    IF w.kind # "object" THEN Err(InvalidType(w, "struct Response"))
    ELSE IF ~HasKey(w.val, "jsonrpc") THEN Err(MissingField("jsonrpc"))
    ELSE IF ~HasKey(w.val, "id") THEN Err(MissingField("id"))
    ELSE Ok([jsonrpc |-> ValueFromWire(Get(w.val, "jsonrpc").val),
             id |-> ValueFromWire(Get(w.val, "id").val),
             result |-> OptionFromWire(Get(w.val, "result")),
             error |-> OptionFromWire(Get(w.val, "error"))])

(***************************************************************************)
(* The text of a String, as one string                                     *)
(***************************************************************************)
RECURSIVE Text(_)
Text(str) == IF Len(str) = 0 THEN "" ELSE Head(str) \o Text(Tail(str))

(***************************************************************************)
(* Specification SpecCode: an i32 is converted to an ErrorCode and back    *)
(***************************************************************************)
KnownCodes == {-32700, -32600, -32601, -32602, -32603}

I32Inputs ==
    (-32705 .. -32595) \cup {-33000, -32999, -32998, -1, 0, 1, 32600, 32700,
                             I32Min, I32Max}

InitCode ==
    /\ input \in I32Inputs
    /\ req = Request_new
    /\ resp = Response_new
    /\ err = Error_new
    /\ output = None
    /\ op = "init"

\* ErrorCode::from(input)
CallErrorCodeFrom ==
    /\ op = "init"
    /\ output' = Some(ErrorCode_from_i32(input))
    /\ op' = "ErrorCode::from"
    /\ UNCHANGED <<req, resp, err, input>>

\* i32::from(code) on the ErrorCode just obtained
CallI32From ==
    /\ op = "ErrorCode::from"
    /\ output' = Some(i32_from_ErrorCode(output.val))
    /\ op' = "i32::from"
    /\ UNCHANGED <<req, resp, err, input>>

NextCode == CallErrorCodeFrom \/ CallI32From

SpecCode == InitCode /\ [][NextCode]_vars

\* C1: i32 -> ErrorCode -> i32 returns v for the five spec-defined codes and
\* the UnknownError sentinel -32999 for every other v; each conversion yields
\* a value for every input (an ErrorCode for every i32, an i32 for every
\* ErrorCode).
C1_RoundTrip ==
    /\ op = "ErrorCode::from" => output.val \in ErrorCodes
    /\ op = "i32::from" =>
            output.val = (IF input \in KnownCodes THEN input ELSE -32999)
    /\ \A code \in ErrorCodes : i32_from_ErrorCode(code) \in I32Min..I32Max

C1_Witness ==
    /\ op = "i32::from"
    /\ input = -32601
    /\ output = Some(-32601)

(***************************************************************************)
(* Specification SpecId: a JSON value is the id of a Request and of a      *)
(* Response read from JSON text, and is coerced                            *)
(***************************************************************************)
IdAlphabet == {"-", ".", "+", "0", "1", "9", "x"}

RECURSIVE StringsUpTo(_)
StringsUpTo(n) ==
    IF n = 0 THEN {<<>>}
    ELSE StringsUpTo(n - 1)
            \cup {Append(str, c) : str \in {t \in StringsUpTo(n - 1) : Len(t) = n - 1},
                                   c \in IdAlphabet}

IdFloats ==
    {Float(num, 10) : num \in {0 - (10 * U64Modulus + 5), 0 - (10 * U64Modulus),
                               -15, -10, -5, 0, 5, 10, 15, 10 * U64Max,
                               10 * U64Max + 5, 10 * U64Modulus,
                               10 * U64Modulus + 5}}

IdValues ==
    {Null, Bool(TRUE), Bool(FALSE)}
        \cup {PosInt(n) : n \in 0..U64Max}
        \cup {NegInt(n) : n \in I64Min..(-1)}
        \cup IdFloats
        \cup {Str(str) : str \in StringsUpTo(MaxStrLen)}
        \cup {Arr(<<>>), Arr(<<PosInt(1)>>), Obj(<<>>), Obj(<< <<"x", PosInt(1)>> >>)}

\* The id member of the JSON text: absent (None) or a value
IdInputs == {None} \cup {Some(v) : v \in IdValues}

RequestWire(id) ==
    Obj(<< <<"jsonrpc", Str(<<"2.0">>)>> >>
        \o (IF IsSome(id) THEN << <<"id", id.val>> >> ELSE <<>>)
        \o << <<"method", Str(<<"m">>)>> >>)

ResponseWire(id) ==
    Obj(<< <<"jsonrpc", Str(<<"2.0">>)>>, <<"id", id>>, <<"result", PosInt(1)>> >>)

\* A Response has no absent id: Response::new() is the one without an id.
InitId ==
    /\ input \in IdInputs
    /\ req = Request_deserialize(RequestWire(input)).val
    /\ resp = IF IsSome(input)
              THEN Response_deserialize(ResponseWire(input.val)).val
              ELSE Response_new
    /\ err = Error_new
    /\ output = None
    /\ op = "init"

CallIdFromValue ==
    /\ IsSome(input)
    /\ output' = id_from_value(ValueFromWire(input.val))
    /\ op' = "id_from_value"
    /\ UNCHANGED <<req, resp, err, input>>

\* request.id() and response.id()
CallId ==
    /\ output' = <<Request_id(req), Response_id(resp)>>
    /\ op' = "id"
    /\ UNCHANGED <<req, resp, err, input>>

NextId == CallIdFromValue \/ CallId

SpecId == InitId /\ [][NextId]_vars

\* The two's-complement reinterpretation of a signed integer as unsigned
Reinterpret(n) == IF n < 0 THEN U64Modulus + n ELSE n

\* The reference of C7 on strings, with the float case as the claim has it
\* (truncated) and as the code has it (truncated, then clamped to u64).
RefString(str, clamp) ==
    IF Contains(str, "-")
    THEN IF IsSome(ParseI64(str)) THEN Some(Reinterpret(ParseI64(str).val)) ELSE None
    ELSE IF Contains(str, ".")
    THEN IF IsSome(ParseF64(str))
         THEN Some(IF clamp /\ Trunc(ParseF64(str).val) > U64Max
                   THEN U64Max
                   ELSE Trunc(ParseF64(str).val))
         ELSE None
    ELSE ParseU64(str)

RefId(v, clamp) ==
    CASE v.kind = "null" -> None
      [] v.kind = "u64" -> Some(v.val)
      [] v.kind = "i64" -> Some(Reinterpret(v.val))
      [] v.kind = "string" -> RefString(v.val, clamp)
      [] v.kind \in {"bool", "array", "object"} -> None

C8_AsStated ==
    (op = "id_from_value" /\ input.val.kind = "f64")
        => output = Some(Reinterpret(Trunc(input.val.val)))

\* C8 amended: a float id is truncated toward zero and saturated to the u64
\* range: n < 0 yields Some(0), n > u64::MAX yields Some(u64::MAX), any other
\* n yields Some(n).
C8_FloatSaturates ==
    (op = "id_from_value" /\ input.val.kind = "f64")
        => LET n == Trunc(input.val.val)
           IN  output = Some(CASE n < 0 -> 0
                               [] n > U64Max -> U64Max
                               [] OTHER -> n)

C8_Witness ==
    /\ op = "id_from_value"
    /\ input = Some(Float(-15, 10))
    /\ output = Some(0)

\* C2 as stated: a Request and a Response carrying the same id return the
\* same result from id().
C2_AsStated == op = "id" => output[1] = output[2]

\* C2 amended: Request::id() and Response::id() agree when the id is absent
\* or null (both None) and when ID Coercion succeeds (both the coerced
\* value); when the id is present, not null, and fails to coerce,
\* Request::id() returns Some(0) and Response::id() returns None.
C2_IdAgreement ==
    op = "id" =>
        IF ~IsSome(input) \/ input.val.kind = "null"
        THEN output = <<None, None>>
        ELSE IF IsSome(id_from_value(ValueFromWire(input.val)))
        THEN /\ output[1] = id_from_value(ValueFromWire(input.val))
             /\ output[2] = output[1]
        ELSE output = <<Some(0), None>>

C2_Witness ==
    /\ op = "id"
    /\ input = Some(Str(<<"x">>))
    /\ output = <<Some(0), None>>

(***************************************************************************)
(* Specification SpecError: an Error is built and displayed                *)
(***************************************************************************)
Messages == {<<>>, <<"e">>, <<"a", "\"", "b">>}

DataValues ==
    {Null, PosInt(1), NegInt(-2), Bool(TRUE), Str(<<"d">>), Str(<<"q", "\"">>),
     Arr(<<PosInt(1), Null>>), Obj(<< <<"x", PosInt(1)>> >>)}

InitError ==
    /\ err = Error_new
    /\ req = Request_new
    /\ resp = Response_new
    /\ input = None
    /\ output = None
    /\ op = "new"

WithCode(code) ==
    /\ err' = Error_with_code(err, code)
    /\ output' = None
    /\ op' = "with_code"
    /\ UNCHANGED <<req, resp, input>>

WithMessage(message) ==
    /\ err' = Error_with_message(err, message)
    /\ output' = None
    /\ op' = "with_message"
    /\ UNCHANGED <<req, resp, input>>

WithData(data) ==
    /\ err' = Error_with_data(err, data)
    /\ output' = None
    /\ op' = "with_data"
    /\ UNCHANGED <<req, resp, input>>

\* format!("{err}")
CallDisplay ==
    /\ output' = Error_fmt(err)
    /\ op' = "fmt"
    /\ UNCHANGED <<req, resp, err, input>>

NextError ==
    \/ \E code \in ErrorCodes : WithCode(code)
    \/ \E message \in Messages : WithMessage(message)
    \/ \E data \in DataValues : WithData(data)
    \/ CallDisplay

SpecError == InitError /\ [][NextError]_vars

\* C9 as stated: Display renders "code": <int>, "message": "<msg>" with <int>
\* the code's signed integer alone, followed by , "data": <data> exactly when
\* data is not null.
C9_AsStated ==
    op = "fmt" =>
        Text(output) =
            "\"code\": " \o Text(IntToStr(i32_from_ErrorCode(err.code)))
                \o ", \"message\": \"" \o Text(err.message) \o "\""
                \o (IF err.data = Null THEN ""
                    ELSE ", \"data\": " \o Text(JsonText(err.data)))

\* C9 amended: Display renders "code": <code>, "message": "<msg>" where
\* <code> is the ErrorCode's own Display, "<Name> (<int>)" (e.g.
\* Parse error (-32700)), followed by , "data": <data> exactly when data is
\* not null.
C9_Display ==
    op = "fmt" =>
        Text(output) =
            "\"code\": " \o Text(str_from_ErrorCode(err.code)) \o " ("
                \o Text(IntToStr(i32_from_ErrorCode(err.code))) \o ")"
                \o ", \"message\": \"" \o Text(err.message) \o "\""
                \o (IF err.data = Null THEN ""
                    ELSE ", \"data\": " \o Text(JsonText(err.data)))

C9_Witness ==
    /\ op = "fmt"
    /\ err = [code |-> "InvalidParams", message |-> <<"e">>, data |-> PosInt(1)]
    /\ Text(output) = "\"code\": Invalid params (-32602), \"message\": \"e\", \"data\": 1"

(***************************************************************************)
(* Specification SpecBuild: a Response is built with its setters and       *)
(* written as JSON text                                                    *)
(***************************************************************************)
BuildIds == {0, 1, U64Max}

BuildResults == {Null, PosInt(1), Str(<<"r">>), Arr(<<PosInt(0), PosInt(1)>>)}

BuildErrors ==
    {Error_with_data(Error_with_message(Error_with_code(Error_new, code), message), data) :
        code \in ErrorCodes, message \in {<<>>, <<"e">>}, data \in {Null, PosInt(1)}}

\* input remembers the argument of the latest call of each setter.
NoCalls == [id |-> None, result |-> None, error |-> None]

InitBuild ==
    /\ resp \in {Response_new, Response_new_null}
    /\ req = Request_new
    /\ err = Error_new
    /\ input = NoCalls
    /\ output = None
    /\ op = "new"

\* set_id(id) / with_id(id)
SetId(id) ==
    /\ resp' = Response_set_id(resp, id)
    /\ input' = [input EXCEPT !.id = Some(id)]
    /\ output' = None
    /\ op' = "set_id"
    /\ UNCHANGED <<req, err>>

\* set_result(result) / with_result(result), result given as its JSON value
SetResult(result) ==
    /\ resp' = Response_set_result(resp, result)
    /\ input' = [input EXCEPT !.result = Some(result)]
    /\ output' = None
    /\ op' = "set_result"
    /\ UNCHANGED <<req, err>>

\* set_error(error) / with_error(error)
SetError(error) ==
    /\ resp' = Response_set_error(resp, error)
    /\ input' = [input EXCEPT !.error = Some(error)]
    /\ output' = None
    /\ op' = "set_error"
    /\ UNCHANGED <<req, err>>

\* serde_json::to_string(&resp)
CallToString ==
    /\ output' = Response_serialize(resp)
    /\ op' = "to_string"
    /\ UNCHANGED <<req, resp, err, input>>

NextBuild ==
    \/ \E id \in BuildIds : SetId(id)
    \/ \E result \in BuildResults : SetResult(result)
    \/ \E error \in BuildErrors : SetError(error)
    \/ CallToString

SpecBuild == InitBuild /\ [][NextBuild]_vars

Keys(m) == [i \in 1..Len(m) |-> m[i][1]]

\* C3 as stated: a serialized Response has the keys jsonrpc, id, result,
\* error in that order, an absent result or error being null, and an error
\* stored by set_error is an object with the keys code, message, data in
\* that order, code being the signed integer.
C3_AsStated ==
    op = "to_string" =>
        /\ Keys(output.val) = <<"jsonrpc", "id", "result", "error">>
        /\ ~IsSome(input.result) => output.val[3][2] = Null
        /\ ~IsSome(input.error) => output.val[4][2] = Null
        /\ IsSome(input.error) =>
                /\ output.val[4][2].kind = "object"
                /\ Keys(output.val[4][2].val) = <<"code", "message", "data">>
                /\ Get(output.val[4][2].val, "code")
                        = Some(NegInt(i32_from_ErrorCode(input.error.val.code)))

\* C3 amended: the same, the keys of the error object appearing in key
\* order: code, data, message.
C3_Serialize ==
    op = "to_string" =>
        /\ Keys(output.val) = <<"jsonrpc", "id", "result", "error">>
        /\ ~IsSome(input.result) => output.val[3][2] = Null
        /\ ~IsSome(input.error) => output.val[4][2] = Null
        /\ IsSome(input.error) =>
                /\ output.val[4][2].kind = "object"
                /\ Keys(output.val[4][2].val) = <<"code", "data", "message">>
                /\ Get(output.val[4][2].val, "code")
                        = Some(NegInt(i32_from_ErrorCode(input.error.val.code)))

\* Response::new().with_id(1).with_error(Error::new().with_message("e"))
C3_Witness ==
    /\ op = "to_string"
    /\ resp = Response_set_error(Response_set_id(Response_new, 1),
                                 Error_with_message(Error_new, <<"e">>))
    /\ Text(JsonText(output)) =
          "{\"jsonrpc\":\"2.0\",\"id\":1,\"result\":null,\"error\":{\"code\":-32700,\"data\":null,\"message\":\"e\"}}"

\* C10, the getters: each getter reflects the latest call of its setter.
C10_Getters ==
    /\ IsSome(input.id) <=> IsSome(Response_id(resp))
    /\ IsSome(input.id) => Response_id(resp) = Some(input.id.val)
    /\ IsSome(input.result) <=> ~Response_result_is_null(resp)
    /\ IsSome(input.result) => Response_result(resp, "Value") = Ok(input.result.val)
    /\ IsSome(input.error) <=> ~Response_error_is_null(resp)
    /\ IsSome(input.error) => Response_error(resp) = Some(input.error.val)

\* C10, the frame: a setter changes its own field only.
C10_Frame ==
    /\ op' = "set_id" =>
            /\ resp'.jsonrpc = resp.jsonrpc
            /\ resp'.result = resp.result
            /\ resp'.error = resp.error
    /\ op' = "set_result" =>
            /\ resp'.jsonrpc = resp.jsonrpc
            /\ resp'.id = resp.id
            /\ resp'.error = resp.error
    /\ op' = "set_error" =>
            /\ resp'.jsonrpc = resp.jsonrpc
            /\ resp'.id = resp.id
            /\ resp'.result = resp.result

\* C10, a field once set stays present.
C10_StaysSet ==
    /\ IsSome(Response_id(resp)) => IsSome(Response_id(resp'))
    /\ ~Response_result_is_null(resp) => ~Response_result_is_null(resp')
    /\ ~Response_error_is_null(resp) => ~Response_error_is_null(resp')

\* C10: from Response::new() or Response::new_null(), under any sequence of
\* set_id / set_result / set_error calls, each setter changes only its own
\* field, each getter reflects the latest call of its setter, and a field
\* once set never becomes absent again; a response with both or neither of
\* result and error is reachable.
C10_Setters == []C10_Getters /\ [][C10_Frame /\ C10_StaysSet]_vars

\* A response carrying both a result and an error, after set_error then
\* set_result.
C10_Witness ==
    /\ op = "set_result"
    /\ ~Response_result_is_null(resp)
    /\ ~Response_error_is_null(resp)
    /\ IsSome(input.id)

(***************************************************************************)
(* Specification SpecWire: a Response read from JSON text whose error      *)
(* member is an arbitrary JSON value, and its error() getter               *)
(***************************************************************************)
WireCodes ==
    {None, Some(PosInt(7)), Some(NegInt(-32700)), Some(NegInt(-32601)),
     Some(NegInt(-32999)), Some(Str(<<"x">>)), Some(Float(15, 10)), Some(Null)}
WireMessages == {None, Some(Str(<<"m">>)), Some(PosInt(5))}
WireDatas == {None, Some(Null), Some(PosInt(1))}

Member(k, o) == IF IsSome(o) THEN << <<k, o.val>> >> ELSE <<>>

ErrorPayloads ==
    {Obj(Member("message", m) \o Member("data", d) \o Member("code", c)) :
        c \in WireCodes, m \in WireMessages, d \in WireDatas}
    \cup {Arr(<<>>), Arr(<<NegInt(-32600)>>),
          Arr(<<NegInt(-32600), Str(<<"m">>)>>),
          Arr(<<NegInt(-32600), Str(<<"m">>), Null>>),
          Arr(<<NegInt(-32600), PosInt(1), Null>>),
          Arr(<<Str(<<"x">>), Str(<<"m">>), Null>>),
          Arr(<<NegInt(-32600), Str(<<"m">>), Null, Null>>),
          Null, Bool(TRUE), PosInt(1), Str(<<"oops">>)}

\* The error member of the JSON text: absent (None) or a value
ErrorInputs == {None} \cup {Some(v) : v \in ErrorPayloads}

ErrorResponseWire(error) ==
    Obj(<< <<"jsonrpc", Str(<<"2.0">>)>>, <<"id", PosInt(1)>> >>
        \o Member("error", error))

InitWire ==
    /\ input \in ErrorInputs
    /\ resp = Response_deserialize(ErrorResponseWire(input)).val
    /\ req = Request_new
    /\ err = Error_new
    /\ output = None
    /\ op = "from_str"

\* resp.error()
CallError ==
    /\ output' = Response_error(resp)
    /\ op' = "Response::error"
    /\ UNCHANGED <<req, resp, err, input>>

\* resp.error_is_null()
CallErrorIsNull ==
    /\ output' = Response_error_is_null(resp)
    /\ op' = "Response::error_is_null"
    /\ UNCHANGED <<req, resp, err, input>>

NextWire == CallError \/ CallErrorIsNull

SpecWire == InitWire /\ [][NextWire]_vars

IsInteger(v) == v.kind \in {"u64", "i64"}

\* The stored JSON has the shape of an Error: an object with an integer
\* code, a string message and a data member, or the array of the three.
Conforms(v) ==
    \/ /\ v.kind = "object"
       /\ HasKey(v.val, "code") /\ IsInteger(Get(v.val, "code").val)
       /\ HasKey(v.val, "message") /\ Get(v.val, "message").val.kind = "string"
       /\ HasKey(v.val, "data")
    \/ /\ v.kind = "array"
       /\ Len(v.val) = 3
       /\ IsInteger(v.val[1])
       /\ v.val[2].kind = "string"

StoredError(v) ==
    IF v.kind = "object"
    THEN [code |-> ErrorCode_from_i32(Get(v.val, "code").val.val),
          message |-> Get(v.val, "message").val.val,
          data |-> Get(v.val, "data").val]
    ELSE [code |-> ErrorCode_from_i32(v.val[1].val),
          message |-> v.val[2].val,
          data |-> v.val[3]]

\* C4: Response::error() returns None exactly when the response has no error
\* field, and otherwise Some(Error): the stored Error (its code read through
\* ErrorCode::from, its message and data) when the stored JSON has the shape
\* of an Error, and otherwise an Error with code ParseError, data null and the
\* deserialization diagnostic as message.
C4_ErrorNeverFails ==
    op = "Response::error" =>
        /\ output.kind \in {"None", "Some"}
        /\ output = None <=> Response_error_is_null(resp)
        /\ Response_error_is_null(resp) <=> (input = None \/ input = Some(Null))
        /\ ~Response_error_is_null(resp) =>
                IF Conforms(resp.error.val)
                THEN output = Some(StoredError(resp.error.val))
                ELSE /\ IsSome(output)
                     /\ output.val.code = "ParseError"
                     /\ output.val.data = Null
                     /\ output.val.message = Error_deserialize(resp.error.val).val

C4_Witness ==
    /\ op = "Response::error"
    /\ input = Some(Str(<<"oops">>))
    /\ output.val.code = "ParseError"
    /\ Text(output.val.message) = "invalid type: string, expected struct Error"

(***************************************************************************)
(* Specification SpecTyped: the typed getters Request::params::<T>() and   *)
(* Response::result::<T>()                                                 *)
(***************************************************************************)
TypedValues ==
    {Null, Bool(TRUE), PosInt(0), PosInt(1), NegInt(-1), Float(15, 10),
     Str(<<"s">>), Arr(<<>>), Arr(<<PosInt(1), PosInt(2)>>),
     Arr(<<PosInt(1), Str(<<"a">>)>>), Arr(<<NegInt(-1)>>),
     Obj(<< <<"x", PosInt(1)>> >>)}

\* The value given to set_params / set_result, or None when it is not called
TypedInputs == {None} \cup {Some(v) : v \in TypedValues}

BuildRequest(params) ==
    IF IsSome(params)
    THEN Request_with_params(Request_with_method(Request_with_id(Request_new, 1),
                                                 <<"m">>), params.val)
    ELSE Request_with_method(Request_with_id(Request_new, 1), <<"m">>)

BuildResponse(result) ==
    IF IsSome(result)
    THEN Response_set_result(Response_set_id(Response_new, 1), result.val)
    ELSE Response_set_id(Response_new, 1)

InitTyped ==
    /\ input \in TypedInputs
    /\ req = BuildRequest(input)
    /\ resp = BuildResponse(input)
    /\ err = Error_new
    /\ output = None
    /\ op = "built"

\* req.params::<T>()
CallParams(T) ==
    /\ output' = [T |-> T, res |-> Request_params(req, T)]
    /\ op' = "Request::params"
    /\ UNCHANGED <<req, resp, err, input>>

\* resp.result::<T>()
CallResult(T) ==
    /\ output' = [T |-> T, res |-> Response_result(resp, T)]
    /\ op' = "Response::result"
    /\ UNCHANGED <<req, resp, err, input>>

NextTyped ==
    \/ \E T \in Types : CallParams(T)
    \/ \E T \in Types : CallResult(T)

SpecTyped == InitTyped /\ [][NextTyped]_vars

\* The JSON value can be read as a T.
Convertible(T, v) ==
    CASE T = "u64" -> v.kind = "u64"
      [] T = "String" -> v.kind = "string"
      [] T = "bool" -> v.kind = "bool"
      [] T = "Vec<u64>" ->
            v.kind = "array" /\ \A i \in 1..Len(v.val) : v.val[i].kind = "u64"
      [] T = "Value" -> TRUE

TypedGetter(field, nullMessage) ==
    /\ output.res.kind \in {"Ok", "Err"}
    /\ ~IsSome(field) =>
            output.res = Err([code |-> "InvalidParams", message |-> nullMessage,
                              data |-> Null])
    /\ (IsSome(field) /\ ~Convertible(output.T, field.val)) =>
            /\ output.res.kind = "Err"
            /\ output.res.val.code = "ParseError"
    /\ (IsSome(field) /\ Convertible(output.T, field.val)) => output.res.kind = "Ok"

\* C5: params::<T>() and result::<T>() return a value: Err with code
\* InvalidParams and message "null Params field" (resp. "null Result field")
\* when the field is absent, Err with code ParseError when it is present and
\* cannot be converted to T, Ok when it can; the message object is unchanged.
C5_TypedGetters ==
    /\ op = "Request::params" => TypedGetter(req.params, <<"null Params field">>)
    /\ op = "Response::result" => TypedGetter(resp.result, <<"null Result field">>)
    /\ req = BuildRequest(input)
    /\ resp = BuildResponse(input)

C5_Witness ==
    /\ op = "Request::params"
    /\ input = Some(Str(<<"s">>))
    /\ output.T = "u64"
    /\ output.res.kind = "Err"
    /\ output.res.val.code = "ParseError"

(***************************************************************************)
(* Specification SpecReq: Request::new().with_id(i).with_method(m) is      *)
(* written as JSON text and read back                                      *)
(***************************************************************************)
ReqIds == 0..U64Max
ReqMethods == {<<>>, <<"m">>, <<"test_method">>, <<"a", "\"">>}

InitReq ==
    /\ req = Request_new
    /\ resp = Response_new
    /\ err = Error_new
    /\ input = None
    /\ output = None
    /\ op = "new"

ReqWithId(id) ==
    /\ op = "new"
    /\ req' = Request_with_id(req, id)
    /\ input' = [id |-> id]
    /\ op' = "with_id"
    /\ UNCHANGED <<resp, err, output>>

ReqWithMethod(method) ==
    /\ op = "with_id"
    /\ req' = Request_with_method(req, method)
    /\ input' = [id |-> input.id, method |-> method]
    /\ op' = "with_method"
    /\ UNCHANGED <<resp, err, output>>

\* serde_json::to_string(&req)
ReqToString ==
    /\ op = "with_method"
    /\ output' = Request_serialize(req)
    /\ op' = "to_string"
    /\ UNCHANGED <<req, resp, err, input>>

\* serde_json::from_str::<Request>(&text)
ReqFromStr ==
    /\ op = "to_string"
    /\ Request_deserialize(output).kind = "Ok"
    /\ req' = Request_deserialize(output).val
    /\ op' = "from_str"
    /\ UNCHANGED <<resp, err, input, output>>

NextReq ==
    \/ \E id \in ReqIds : ReqWithId(id)
    \/ \E method \in ReqMethods : ReqWithMethod(method)
    \/ ReqToString
    \/ ReqFromStr

SpecReq == InitReq /\ [][NextReq]_vars

\* C6: Request::new().with_id(i).with_method(m) serializes to the object with
\* the keys jsonrpc = "2.0", id = i, method = m, params = null in that order,
\* and the Request read back from that text has jsonrpc() = Some("2.0"),
\* id() = Some(i), method() = Some(m) and params absent.
C6_RoundTrip ==
    /\ op = "to_string" =>
            output = Obj(<< <<"jsonrpc", Str(<<"2.0">>)>>,
                            <<"id", PosInt(input.id)>>,
                            <<"method", Str(input.method)>>,
                            <<"params", Null>> >>)
    /\ op = "from_str" =>
            /\ Request_jsonrpc(req) = Some(<<"2.0">>)
            /\ Request_id(req) = Some(input.id)
            /\ Request_method(req) = Some(input.method)
            /\ Request_params_is_null(req)
            /\ Request_params(req, "Value").val.code = "InvalidParams"

C6_Witness ==
    /\ op = "from_str"
    /\ input = [id |-> 1, method |-> <<"test_method">>]
    /\ Text(JsonText(output)) =
          "{\"jsonrpc\":\"2.0\",\"id\":1,\"method\":\"test_method\",\"params\":null}"
    /\ Request_id(req) = Some(1)

====
